---- MODULE Spec2Model ----
(***************************************************************************)
(* tower-sombrero: security-header middleware.                             *)
(*                                                                         *)
(* Header values and nonces are TLA+ strings, built by concatenation the   *)
(* way the Rust code pushes onto its String buffer.  Three specifications: *)
(*   SpecPolicy - the ContentSecurityPolicy builders and value()           *)
(*   SpecBuilders - the set and remove builders of all twenty directives   *)
(*   Spec       - concurrent requests through one SombreroService or       *)
(*                CspService around a handler                              *)
(*   SpecNested - one request through two such layers                      *)
(*   SpecExtract - requests to a handler using the CspNonce extractor,     *)
(*                behind one layer or none                                 *)
(*   SpecSts    - one request through a SombreroService configured with a  *)
(*                StrictTransportSecurity header                           *)
(***************************************************************************)
EXTENDS Integers, Sequences, FiniteSets, TLC

VARIABLES
    policy,     \* SpecPolicy: the ContentSecurityPolicy value under construction
    base,       \* SpecPolicy: the constructor result the builders started from
    ops,        \* SpecPolicy: history of the builder calls applied to base
    rendered,   \* SpecPolicy: outcome of the last value(nonce) call, or NoRender
    stack,      \* Spec: the layers around the handler, outermost first
    req         \* Spec: per-request state

vars == <<policy, base, ops, rendered, stack, req>>

----------------------------------------------------------------------------
(* Bounds *)

\* number of leading symbols of the 62-symbol alphabet the model draws from
AlphabetSize == 2
\* nonce length used by the model in place of the middleware's 32
NonceLength == 1
\* requests that may arrive in one run
NumRequests == 2
\* builder calls applied to one policy
MaxOps == 3
\* builder calls applied to one policy when all twenty directives are in play
MaxBuilderCalls == 2

----------------------------------------------------------------------------
(* Strings *)

\* sub occurs in text at position i
At(text, i, sub) ==
    /\ 1 <= i
    /\ i + Len(sub) - 1 <= Len(text)
    /\ SubSeq(text, i, i + Len(sub) - 1) = sub

Contains(text, sub) == \E i \in 1..Len(text) : At(text, i, sub)

EndsWith(text, sub) ==
    Len(sub) <= Len(text) /\ At(text, Len(text) - Len(sub) + 1, sub)

\* number of (possibly overlapping) occurrences of sub in text
Occurrences(text, sub) ==
    Cardinality({i \in 1..Len(text) : At(text, i, sub)})

----------------------------------------------------------------------------
(* headers/csp.rs: source expressions *)

CspSchemeSources == {"Data", "Mediastream", "Blob", "Filesystem", "Http", "Https"}

CspSchemeSource_as_ref(s) ==
    CASE s = "Data"        -> "data:"
      [] s = "Mediastream" -> "mediastream:"
      [] s = "Blob"        -> "blob:"
      [] s = "Filesystem"  -> "filesystem:"
      [] s = "Http"        -> "http:"
      [] s = "Https"       -> "https:"

\* a CspHashAlgorithm is [kind |-> "Sha256" | "Sha384" | "Sha512"] or
\* [kind |-> "Custom", s |-> text]
CspHashAlgorithm_as_ref(a) ==
    CASE a.kind = "Sha256" -> "sha256"
      [] a.kind = "Sha384" -> "sha384"
      [] a.kind = "Sha512" -> "sha512"
      [] a.kind = "Custom" -> a.s

Host(s)          == [kind |-> "Host", s |-> s]
Scheme(s)        == [kind |-> "Scheme", scheme |-> s]
Nonce            == [kind |-> "Nonce"]
Hash(algo, data) == [kind |-> "Hash", algo |-> algo, data |-> data]
Keyword(k)       == [kind |-> k]
SelfOrigin       == Keyword("SelfOrigin")
UnsafeInline     == Keyword("UnsafeInline")
SourceNone       == Keyword("None")

\* as_cow whose Host arm also reads the nonce
as_cow_host_reads_nonce(source, nonce) ==
    CASE source.kind = "Host"   -> source.s \o nonce
      [] source.kind = "Scheme" -> CspSchemeSource_as_ref(source.scheme)
      [] source.kind = "Nonce"  -> "'nonce-" \o nonce \o "'"
      [] source.kind = "Hash"   ->
            "'" \o CspHashAlgorithm_as_ref(source.algo) \o "-" \o source.data \o "'"
      [] source.kind = "SelfOrigin"             -> "'self'"
      [] source.kind = "UnsafeEval"             -> "'unsafe-eval'"
      [] source.kind = "WasmUnsafeEval"         -> "'wasm-unsafe-eval'"
      [] source.kind = "UnsafeHashes"           -> "'unsafe-hashes'"
      [] source.kind = "UnsafeInline"           -> "'unsafe-inline'"
      [] source.kind = "StrictDynamic"          -> "'strict-dynamic'"
      [] source.kind = "ReportSample"           -> "'report-sample'"
      [] source.kind = "InlineSpeculationRules" -> "'inline-speculation-rules'"
      [] source.kind = "None"                   -> "'none'"

as_cow(source, nonce) ==
    CASE source.kind = "Host"   -> source.s
      [] source.kind = "Scheme" -> CspSchemeSource_as_ref(source.scheme)
      [] source.kind = "Nonce"  -> "'nonce-" \o nonce \o "'"
      [] source.kind = "Hash"   ->
            "'" \o CspHashAlgorithm_as_ref(source.algo) \o "-" \o source.data \o "'"
      [] source.kind = "SelfOrigin"             -> "'self'"
      [] source.kind = "UnsafeEval"             -> "'unsafe-eval'"
      [] source.kind = "WasmUnsafeEval"         -> "'wasm-unsafe-eval'"
      [] source.kind = "UnsafeHashes"           -> "'unsafe-hashes'"
      [] source.kind = "UnsafeInline"           -> "'unsafe-inline'"
      [] source.kind = "StrictDynamic"          -> "'strict-dynamic'"
      [] source.kind = "ReportSample"           -> "'report-sample'"
      [] source.kind = "InlineSpeculationRules" -> "'inline-speculation-rules'"
      [] source.kind = "None"                   -> "'none'"

\* the for loop of serialize_header: push ' ' and the source text, in list order
RECURSIVE push_sources(_, _, _)
push_sources(s, nonce, sources) ==
    IF sources = <<>> THEN s
    ELSE push_sources(s \o " " \o as_cow(Head(sources), nonce), nonce, Tail(sources))

\* serialize_header without its is_empty early return
serialize_header_no_skip(s, nonce, name, sources) ==
    push_sources(s \o name, nonce, sources) \o ";"

serialize_header(s, nonce, name, sources) ==
    IF sources = <<>> THEN s
    ELSE push_sources(s \o name, nonce, sources) \o ";"

----------------------------------------------------------------------------
(* headers/csp.rs: the policy aggregate *)

\* the twenty Vec<CspSource> fields, in declaration order
DirectiveFields ==
    << "default_src", "child_src", "connect_src", "font_src", "frame_src",
       "img_src", "manifest_src", "media_src", "object_src", "script_src",
       "script_src_elem", "script_src_attr", "style_src", "style_src_elem",
       "style_src_attr", "worker_src", "base_uri", "sandbox", "form_action",
       "frame_ancestors" >>

ContentSecurityPolicy_new ==
    [ default_src |-> <<>>, child_src |-> <<>>, connect_src |-> <<>>,
      font_src |-> <<>>, frame_src |-> <<>>, img_src |-> <<>>,
      manifest_src |-> <<>>, media_src |-> <<>>, object_src |-> <<>>,
      script_src |-> <<>>, script_src_elem |-> <<>>, script_src_attr |-> <<>>,
      style_src |-> <<>>, style_src_elem |-> <<>>, style_src_attr |-> <<>>,
      worker_src |-> <<>>, base_uri |-> <<>>, sandbox |-> <<>>,
      form_action |-> <<>>, frame_ancestors |-> <<>>,
      upgrade_insecure_requests |-> FALSE ]

strict_default ==
    [ ContentSecurityPolicy_new EXCEPT
        !.default_src = <<SelfOrigin>>,
        !.base_uri = <<SelfOrigin>>,
        !.font_src = <<SelfOrigin, Scheme("Https"), Scheme("Data")>>,
        !.form_action = <<SelfOrigin>>,
        !.frame_ancestors = <<SelfOrigin>>,
        !.img_src = <<SelfOrigin, Scheme("Data")>>,
        !.object_src = <<SourceNone>>,
        !.script_src = <<SelfOrigin>>,
        !.script_src_attr = <<SourceNone>>,
        !.style_src = <<SelfOrigin, Scheme("Https"), UnsafeInline>>,
        !.upgrade_insecure_requests = TRUE ]

\* HeaderValue::from_str accepts visible ASCII, space and tab; of the
\* characters the model's strings use, line feed and carriage return are refused
IllegalHeaderChars == {"\n", "\r"}

HeaderValue_from_str(text) ==
    IF \E i \in 1..Len(text) : SubSeq(text, i, i) \in IllegalHeaderChars
    THEN [ok |-> FALSE]
    ELSE [ok |-> TRUE, text |-> text]

value(self, nonce) ==
    LET o0  == ""
        o1  == serialize_header(o0,  nonce, "default-src", self.default_src)
        o2  == serialize_header(o1,  nonce, "child-src", self.child_src)
        o3  == serialize_header(o2,  nonce, "connect-src", self.connect_src)
        o4  == serialize_header(o3,  nonce, "font-src", self.font_src)
        o5  == serialize_header(o4,  nonce, "frame-src", self.frame_src)
        o6  == serialize_header(o5,  nonce, "img-src", self.img_src)
        o7  == serialize_header(o6,  nonce, "manifest-src", self.manifest_src)
        o8  == serialize_header(o7,  nonce, "media-src", self.media_src)
        o9  == serialize_header(o8,  nonce, "object-src", self.object_src)
        o10 == serialize_header(o9,  nonce, "script-src", self.script_src)
        o11 == serialize_header(o10, nonce, "script-src-elem", self.script_src_elem)
        o12 == serialize_header(o11, nonce, "script-src-attr", self.script_src_attr)
        o13 == serialize_header(o12, nonce, "style-src", self.style_src)
        o14 == serialize_header(o13, nonce, "style-src-elem", self.style_src_elem)
        o15 == serialize_header(o14, nonce, "style-src-attr", self.style_src_attr)
        o16 == serialize_header(o15, nonce, "worker-src", self.worker_src)
        o17 == serialize_header(o16, nonce, "base-uri", self.base_uri)
        o18 == serialize_header(o17, nonce, "sandbox", self.sandbox)
        o19 == serialize_header(o18, nonce, "form-action", self.form_action)
        o20 == serialize_header(o19, nonce, "frame-ancestors", self.frame_ancestors)
    IN  HeaderValue_from_str(o20)

upgrade_insecure_requests(self, doit) ==
    [self EXCEPT !.upgrade_insecure_requests = doit]

\* csp_builder_add with `..Self::new()` in place of `..self`
csp_builder_add_from_new(self, id, new) == [ContentSecurityPolicy_new EXCEPT ![id] = new]

\* csp_builder_add!($id): Self { $id: new.into(), ..self }
csp_builder_add(self, id, new) == [self EXCEPT ![id] = new]

\* a remove builder generated with the wrong field: it clears default_src
csp_builder_remove_default_src(self, id) == [self EXCEPT !.default_src = <<>>]

\* csp_builder_remove!($id, $func): Vec::clear(&mut self.$id); self
csp_builder_remove(self, id) == [self EXCEPT ![id] = <<>>]

----------------------------------------------------------------------------
(* lib.rs: random_string *)

\* rand::distributions::Alphanumeric samples from these 62 symbols
AlphanumericCharset ==
    "ABCDEFGHIJKLMNOPQRSTUVWXYZabcdefghijklmnopqrstuvwxyz0123456789"

Alphanumeric == {SubSeq(AlphanumericCharset, i, i) : i \in 1..AlphabetSize}

\* every string random_string(length) can return
RECURSIVE random_string(_)
random_string(length) ==
    IF length = 0 THEN {""}
    ELSE {c \o s : c \in Alphanumeric, s \in random_string(length - 1)}

----------------------------------------------------------------------------
(* Option<T> *)

OptNone == [some |-> FALSE]
Some(x) == [some |-> TRUE, v |-> x]

----------------------------------------------------------------------------
(* headers/mod.rs and headers/sts.rs: the static header types.  A header is  *)
(* [type |-> T, variant |-> V]; StrictTransportSecurity carries its fields.  *)

CrossOriginEmbedderPolicy(v)     == [type |-> "CrossOriginEmbedderPolicy", variant |-> v]
CrossOriginOpenerPolicy(v)       == [type |-> "CrossOriginOpenerPolicy", variant |-> v]
CrossOriginResourcePolicy(v)     == [type |-> "CrossOriginResourcePolicy", variant |-> v]
OriginAgentCluster               == [type |-> "OriginAgentCluster", variant |-> "OriginAgentCluster"]
ReferrerPolicy(v)                == [type |-> "ReferrerPolicy", variant |-> v]
XContentTypeOptions              == [type |-> "XContentTypeOptions", variant |-> "XContentTypeOptions"]
XDnsPrefetchControl(v)           == [type |-> "XDnsPrefetchControl", variant |-> v]
XDownloadOptions                 == [type |-> "XDownloadOptions", variant |-> "XDownloadOptions"]
XFrameOptions(v)                 == [type |-> "XFrameOptions", variant |-> v]
XPermittedCrossDomainPolicies(v) == [type |-> "XPermittedCrossDomainPolicies", variant |-> v]
XXssProtection(v)                == [type |-> "XXssProtection", variant |-> v]

StrictTransportSecurity(isd, age) ==
    [type |-> "StrictTransportSecurity", include_sub_domains |-> isd, max_age |-> age]

STS_MAX_AGE == 180 * 24 * 60 * 60

StrictTransportSecurity_DEFAULT == StrictTransportSecurity(TRUE, STS_MAX_AGE)

\* pub const fn max_age(self, max_age: usize) -> Self
StrictTransportSecurity_max_age(self, max_age) == [self EXCEPT !.max_age = max_age]

\* pub const fn include_sub_domains(self, include_sub_domains: bool) -> Self
StrictTransportSecurity_include_sub_domains(self, include_sub_domains) ==
    [self EXCEPT !.include_sub_domains = include_sub_domains]

\* a cached header value written for a max-age of one year
DEFAULT_HEADERIZED_one_year == "max-age=31536000;includeSubDomains"

DEFAULT_HEADERIZED == "max-age=15552000;includeSubDomains"

Digits == "0123456789"

\* format!("{}", n) for a usize
RECURSIVE ToDecimal(_)
ToDecimal(n) ==
    IF n < 10 THEN SubSeq(Digits, n + 1, n + 1)
    ELSE ToDecimal(n \div 10) \o SubSeq(Digits, (n % 10) + 1, (n % 10) + 1)

raw_value(self) ==
    LET subdomain_flag == IF self.include_sub_domains THEN ";includeSubDomains" ELSE ""
    IN  "max-age=" \o ToDecimal(self.max_age) \o subdomain_flag

StrictTransportSecurity_value(self) ==
    IF self = StrictTransportSecurity_DEFAULT THEN DEFAULT_HEADERIZED
    ELSE raw_value(self)

CONTENT_SECURITY_POLICY             == "content-security-policy"
CONTENT_SECURITY_POLICY_REPORT_ONLY == "content-security-policy-report-only"

Header_name(h) ==
    CASE h.type = "CrossOriginEmbedderPolicy"     -> "cross-origin-embedder-policy"
      [] h.type = "CrossOriginOpenerPolicy"       -> "cross-origin-opener-policy"
      [] h.type = "CrossOriginResourcePolicy"     -> "cross-origin-resource-policy"
      [] h.type = "OriginAgentCluster"            -> "origin-agent-cluster"
      [] h.type = "ReferrerPolicy"                -> "referrer-policy"
      [] h.type = "StrictTransportSecurity"       -> "strict-transport-security"
      [] h.type = "XContentTypeOptions"           -> "x-content-type-options"
      [] h.type = "XDnsPrefetchControl"           -> "x-dns-prefetch-control"
      [] h.type = "XDownloadOptions"              -> "x-download-options"
      [] h.type = "XFrameOptions"                 -> "x-frame-options"
      [] h.type = "XPermittedCrossDomainPolicies" -> "x-permitted-cross-domain-policies"
      [] h.type = "XXssProtection"                -> "x-xss-protection"

Header_value(h) ==
    CASE h.type = "CrossOriginEmbedderPolicy" ->
            ( CASE h.variant = "RequireCorp"    -> "require-corp"
                [] h.variant = "Credentialless" -> "credentialless"
                [] h.variant = "UnsafeNone"     -> "unsafe-none" )
      [] h.type = "CrossOriginOpenerPolicy" ->
            ( CASE h.variant = "SameOrigin"            -> "same-origin"
                [] h.variant = "SameOriginAllowPopups" -> "same-origin-allow-popups"
                [] h.variant = "UnsafeNone"            -> "unsafe-none" )
      [] h.type = "CrossOriginResourcePolicy" ->
            ( CASE h.variant = "SameOrigin"  -> "same-origin"
                [] h.variant = "SameSite"    -> "same-site"
                [] h.variant = "CrossOrigin" -> "cross-origin" )
      [] h.type = "OriginAgentCluster" -> "?1"
      [] h.type = "ReferrerPolicy" ->
            ( CASE h.variant = "NoReferrer"                  -> "no-referrer"
                [] h.variant = "NoReferrerWhenDowngrade"     -> "no-referrer-when-downgrade"
                [] h.variant = "Origin"                      -> "origin"
                [] h.variant = "OriginWhenCrossOrigin"       -> "origin-when-cross-origin"
                [] h.variant = "SameOrigin"                  -> "same-origin"
                [] h.variant = "StrictOrigin"                -> "strict-origin"
                [] h.variant = "StrictOriginWhenCrossOrigin" -> "strict-origin-when-cross-origin"
                [] h.variant = "UnsafeUrl"                   -> "unsafe-url" )
      [] h.type = "StrictTransportSecurity" -> StrictTransportSecurity_value(h)
      [] h.type = "XContentTypeOptions" -> "nosniff"
      [] h.type = "XDnsPrefetchControl" ->
            ( CASE h.variant = "Off" -> "off"
                [] h.variant = "On"  -> "on" )
      [] h.type = "XDownloadOptions" -> "noopen"
      [] h.type = "XFrameOptions" ->
            ( CASE h.variant = "Deny"       -> "DENY"
                [] h.variant = "Sameorigin" -> "SAMEORIGIN" )
      [] h.type = "XPermittedCrossDomainPolicies" ->
            ( CASE h.variant = "None"          -> "none"
                [] h.variant = "MasterOnly"    -> "master-only"
                [] h.variant = "ByContentType" -> "by-content-type"
                [] h.variant = "All"           -> "all" )
      [] h.type = "XXssProtection" ->
            ( CASE h.variant = "TrueBlock" -> "1; mode=block"
                [] h.variant = "True"      -> "1"
                [] h.variant = "False"     -> "0" )

----------------------------------------------------------------------------
(* lib.rs: the Sombrero configuration *)

\* the twelve static header fields, in declaration order
StaticFields ==
    << "cross_origin_embedder_policy", "cross_origin_opener_policy",
       "cross_origin_resource_policy", "origin_agent_cluster", "referrer_policy",
       "strict_transport_security", "x_content_type_options",
       "x_dns_prefetch_control", "x_download_options", "x_frame_options",
       "x_permitted_cross_domain_policies", "x_xss_protection" >>

Sombrero_new ==
    [ content_security_policy |-> OptNone,
      content_security_policy_report_only |-> OptNone,
      cross_origin_embedder_policy |-> OptNone,
      cross_origin_opener_policy |-> OptNone,
      cross_origin_resource_policy |-> OptNone,
      origin_agent_cluster |-> OptNone,
      referrer_policy |-> OptNone,
      strict_transport_security |-> OptNone,
      x_content_type_options |-> OptNone,
      x_dns_prefetch_control |-> OptNone,
      x_download_options |-> OptNone,
      x_frame_options |-> OptNone,
      x_permitted_cross_domain_policies |-> OptNone,
      x_xss_protection |-> OptNone ]

\* Default with x_frame_options: Some(XFrameOptions::Deny)
Sombrero_default_frame_deny ==
    [ Sombrero_new EXCEPT
        !.content_security_policy = Some(strict_default),
        !.cross_origin_opener_policy = Some(CrossOriginOpenerPolicy("SameOrigin")),
        !.cross_origin_resource_policy = Some(CrossOriginResourcePolicy("SameOrigin")),
        !.origin_agent_cluster = Some(OriginAgentCluster),
        !.referrer_policy = Some(ReferrerPolicy("NoReferrer")),
        !.strict_transport_security = Some(StrictTransportSecurity_DEFAULT),
        !.x_content_type_options = Some(XContentTypeOptions),
        !.x_download_options = Some(XDownloadOptions),
        !.x_frame_options = Some(XFrameOptions("Deny")),
        !.x_permitted_cross_domain_policies = Some(XPermittedCrossDomainPolicies("None")),
        !.x_xss_protection = Some(XXssProtection("False")) ]

Sombrero_default ==
    [ content_security_policy |-> Some(strict_default),
      content_security_policy_report_only |-> OptNone,
      cross_origin_embedder_policy |-> OptNone,
      cross_origin_opener_policy |-> Some(CrossOriginOpenerPolicy("SameOrigin")),
      cross_origin_resource_policy |-> Some(CrossOriginResourcePolicy("SameOrigin")),
      origin_agent_cluster |-> Some(OriginAgentCluster),
      referrer_policy |-> Some(ReferrerPolicy("NoReferrer")),
      strict_transport_security |-> Some(StrictTransportSecurity_DEFAULT),
      x_content_type_options |-> Some(XContentTypeOptions),
      x_dns_prefetch_control |-> OptNone,
      x_download_options |-> Some(XDownloadOptions),
      x_frame_options |-> Some(XFrameOptions("Sameorigin")),
      x_permitted_cross_domain_policies |-> Some(XPermittedCrossDomainPolicies("None")),
      x_xss_protection |-> Some(XXssProtection("False")) ]

\* builder_add!($field, $kind) and builder_add_arc!($field, $kind)
builder_add(self, field, k) == [self EXCEPT ![field] = Some(k)]

\* builder_remove!($field, $name)
builder_remove(self, field) == [self EXCEPT ![field] = OptNone]

\* Layer::layer for Sombrero and for CspLayer: the service wrapping `inner`;
\* the inner service is the next element of `stack`
SombreroService(sombrero) == [kind |-> "SombreroService", sombrero |-> sombrero]

CspLayer_new(csp)             == [report_only |-> FALSE, csp |-> csp]
CspLayer_new_report_only(csp) == [report_only |-> TRUE, csp |-> csp]

CspService(layer) ==
    [kind |-> "CspService", report_only |-> layer.report_only, csp |-> layer.csp]

----------------------------------------------------------------------------
(* http::HeaderMap as used by lib.rs: a multimap from header name to the     *)
(* sequence of its values; no value = header absent                          *)

ManagedNames ==
    {CONTENT_SECURITY_POLICY, CONTENT_SECURITY_POLICY_REPORT_ONLY}
    \cup {Header_name([type |-> t]) :
            t \in {"CrossOriginEmbedderPolicy", "CrossOriginOpenerPolicy",
                   "CrossOriginResourcePolicy", "OriginAgentCluster", "ReferrerPolicy",
                   "StrictTransportSecurity", "XContentTypeOptions", "XDnsPrefetchControl",
                   "XDownloadOptions", "XFrameOptions", "XPermittedCrossDomainPolicies",
                   "XXssProtection"}}

\* a header name the middleware does not manage
UnmanagedNames == {"x-custom"}

HeaderNames == ManagedNames \cup UnmanagedNames

NoHeaders == [n \in HeaderNames |-> <<>>]

\* HeaderMap::insert: the name's previous values are dropped
HeaderMap_insert(map, name, val) == [map EXCEPT ![name] = <<val>>]

\* HeaderMap::append: the value is added after the name's previous values
HeaderMap_append(map, name, val) == [map EXCEPT ![name] = Append(@, val)]

\* Result<Response<B>, E>
Ok(headers) == [ok |-> TRUE, headers |-> headers]
Err(e)      == [ok |-> FALSE, err |-> e]

----------------------------------------------------------------------------
(* lib.rs: attaching headers *)

\* add_opt_header calling HeaderMap::append
add_opt_header_append(map, header) ==
    IF header.some
    THEN HeaderMap_append(map, Header_name(header.v), Header_value(header.v))
    ELSE map

add_opt_header(map, header) ==
    IF header.some
    THEN HeaderMap_insert(map, Header_name(header.v), Header_value(header.v))
    ELSE map

\* add_opt_header_raw inserting header_value.unwrap_or_default()
add_opt_header_raw_or_default(map, header_name, header_value) ==
    HeaderMap_insert(map, header_name, IF header_value.some THEN header_value.v ELSE "")

add_opt_header_raw(map, header_name, header_value) ==
    IF header_value.some
    THEN HeaderMap_insert(map, header_name, header_value.v)
    ELSE map

\* sombrero_svc_middleware answering a handler error with a fresh response
sombrero_svc_middleware_recover(h, content_security_policy, content_security_policy_report_only, response) ==
    Ok(add_opt_header_raw(NoHeaders, CONTENT_SECURITY_POLICY, content_security_policy))

\* `response` is the outcome of response_fut.await
sombrero_svc_middleware(h, content_security_policy, content_security_policy_report_only, response) ==
    IF ~response.ok THEN response
    ELSE
    LET m0  == response.headers
        m1  == add_opt_header_raw(m0, CONTENT_SECURITY_POLICY, content_security_policy)
        m2  == add_opt_header_raw(m1, CONTENT_SECURITY_POLICY_REPORT_ONLY,
                                  content_security_policy_report_only)
        m3  == add_opt_header(m2,  h.cross_origin_embedder_policy)
        m4  == add_opt_header(m3,  h.cross_origin_opener_policy)
        m5  == add_opt_header(m4,  h.cross_origin_resource_policy)
        m6  == add_opt_header(m5,  h.origin_agent_cluster)
        m7  == add_opt_header(m6,  h.referrer_policy)
        m8  == add_opt_header(m7,  h.strict_transport_security)
        m9  == add_opt_header(m8,  h.x_content_type_options)
        m10 == add_opt_header(m9,  h.x_dns_prefetch_control)
        m11 == add_opt_header(m10, h.x_download_options)
        m12 == add_opt_header(m11, h.x_frame_options)
        m13 == add_opt_header(m12, h.x_permitted_cross_domain_policies)
        m14 == add_opt_header(m13, h.x_xss_protection)
    IN  Ok(m14)

middleware_add_raw_header(header_name, header_value, response) ==
    IF ~response.ok THEN response
    ELSE Ok(HeaderMap_insert(response.headers, header_name, header_value))

----------------------------------------------------------------------------
(* Requests.  A request record holds                                         *)
(*   pc             "unused" | "idle" | "called" | "responded" | "done"      *)
(*                  | "panicked"                                             *)
(*   extensions     the CspNonce slot of request.extensions()                *)
(*   nonces         the nonce drawn by each layer's call, outermost first    *)
(*   frames         the pending middleware futures, innermost first          *)
(*   handler_saw    what the handler read from the CspNonce slot             *)
(*   extracted      what the handler's CspNonce extractor returned           *)
(*   handler_result what the handler's future resolved to                    *)
(*   result         the outcome on its way up through the frames             *)
(*   trace          the steps taken for the request, in order                *)

Requests == 1..NumRequests

IdleRequest ==
    [ pc |-> "idle", extensions |-> OptNone, nonces |-> <<>>, frames |-> <<>>,
      handler_saw |-> OptNone, handler_result |-> OptNone, result |-> OptNone,
      trace |-> <<>>, extracted |-> OptNone ]

UnusedRequest == [IdleRequest EXCEPT !.pc = "unused"]

Ev(layer, event) == [layer |-> layer, event |-> event]

Log(st, layer, event) == [st EXCEPT !.trace = Append(@, Ev(layer, event))]

\* a CspNonce made once and shared by every request
CspNonce_shared(nonce) == CHOOSE n \in random_string(NonceLength) : TRUE

\* pub struct CspNonce(pub String)
CspNonce(nonce) == nonce

\* axum.rs: pub struct NonceNotFoundError, shown as its Display text
NonceNotFoundError == "Nonce not found in extensions!"

\* the extractor with .unwrap_or_default() in place of .ok_or(..)
from_request_parts_or_default(extensions) ==
    IF extensions.some THEN [ok |-> TRUE, v |-> extensions.v]
    ELSE [ok |-> TRUE, v |-> ""]

\* FromRequestParts for CspNonce:
\* parts.extensions.get().cloned().ok_or(NonceNotFoundError)
from_request_parts(extensions) ==
    IF extensions.some THEN [ok |-> TRUE, v |-> extensions.v]
    ELSE [ok |-> FALSE, err |-> NonceNotFoundError]

\* request.extensions_mut().insert(CspNonce(..)): one slot per type
extensions_insert(st, val) == [st EXCEPT !.extensions = Some(val)]

\* .expect(BAD_CSP_MESSAGE) on a failed render
Panic(st) == [st EXCEPT !.pc = "panicked", !.frames = <<>>]

\* a second random_string call in place of the shared nonce
OtherNonce(nonce) == CHOOSE n \in random_string(NonceLength) : n # nonce

\* the `csp` binding of SombreroService::call rendering with a nonce of its own
SombreroService_csp_own_nonce(sombrero, nonce) ==
    IF sombrero.content_security_policy.some
    THEN Some(value(sombrero.content_security_policy.v, OtherNonce(nonce)))
    ELSE OptNone

\* the `csp` binding of SombreroService::call
SombreroService_csp(sombrero, nonce) ==
    IF sombrero.content_security_policy.some
    THEN Some(value(sombrero.content_security_policy.v, nonce))
    ELSE OptNone

\* the `csp_ro` binding rendering with a nonce of its own
SombreroService_csp_ro_own_nonce(sombrero, nonce) ==
    IF sombrero.content_security_policy_report_only.some
    THEN Some(value(sombrero.content_security_policy_report_only.v, OtherNonce(nonce)))
    ELSE OptNone

\* the `csp_ro` binding of SombreroService::call
SombreroService_csp_ro(sombrero, nonce) ==
    IF sombrero.content_security_policy_report_only.some
    THEN Some(value(sombrero.content_security_policy_report_only.v, nonce))
    ELSE OptNone

\* Option<Result<HeaderValue, _>> after .expect: the header text
Expected(o) == IF o.some THEN Some(o.v.text) ELSE OptNone

RECURSIVE ServiceCall(_, _, _)

\* the innermost service: calling it creates the handler's future, which owns
\* the request; the handler body runs when that future is polled
Handler_call(i, st) == [Log(st, i, "handler_call") EXCEPT !.pc = "called"]

\* SombreroService::call rendering its policies after the inner call
SombreroService_call_render_late(i, st, draws) ==
    LET self   == stack[i]
        nonce  == draws[i]
        st0    == [Log(st, i, "nonce") EXCEPT !.nonces = Append(@, nonce)]
        st1    == Log(extensions_insert(st0, CspNonce(nonce)), i, "store")
        st2    == ServiceCall(i + 1, Log(st1, i, "forward"), draws)
        csp    == SombreroService_csp(self.sombrero, nonce)
        csp_ro == SombreroService_csp_ro(self.sombrero, nonce)
        st3    == IF csp.some THEN Log(st2, i, "render") ELSE st2
        st4    == IF csp_ro.some THEN Log(st3, i, "render_ro") ELSE st3
        future == [ kind |-> "sombrero_svc_middleware", layer |-> i,
                    h |-> self.sombrero,
                    content_security_policy |-> Expected(csp),
                    content_security_policy_report_only |-> Expected(csp_ro) ]
    IN  IF st2.pc = "panicked" THEN st2
        ELSE IF csp.some /\ ~csp.v.ok THEN Panic(st3)
        ELSE IF csp_ro.some /\ ~csp_ro.v.ok THEN Panic(st4)
        ELSE [st4 EXCEPT !.frames = Append(@, future)]

SombreroService_call(i, st, draws) ==
    LET self   == stack[i]
        nonce  == draws[i]
        st0    == [Log(st, i, "nonce") EXCEPT !.nonces = Append(@, nonce)]
        csp    == SombreroService_csp(self.sombrero, nonce)
        csp_ro == SombreroService_csp_ro(self.sombrero, nonce)
        st1    == IF csp.some THEN Log(st0, i, "render") ELSE st0
        st2    == IF csp_ro.some THEN Log(st1, i, "render_ro") ELSE st1
    IN  IF csp.some /\ ~csp.v.ok THEN Panic(st1)
        ELSE IF csp_ro.some /\ ~csp_ro.v.ok THEN Panic(st2)
        ELSE
        LET st3 == Log(extensions_insert(st2, CspNonce(nonce)), i, "store")
            st4 == ServiceCall(i + 1, Log(st3, i, "forward"), draws)
            future == [ kind |-> "sombrero_svc_middleware", layer |-> i,
                        h |-> self.sombrero,
                        content_security_policy |-> Expected(csp),
                        content_security_policy_report_only |-> Expected(csp_ro) ]
        IN  IF st4.pc = "panicked" THEN st4
            ELSE [st4 EXCEPT !.frames = Append(@, future)]

CspService_call(i, st, draws) ==
    LET self         == stack[i]
        nonce_string == draws[i]
        st0 == [Log(st, i, "nonce") EXCEPT !.nonces = Append(@, nonce_string)]
        st1 == Log(extensions_insert(st0, CspNonce(nonce_string)), i, "store")
        st2 == ServiceCall(i + 1, Log(st1, i, "forward"), draws)
    IN  IF st2.pc = "panicked" THEN st2
        ELSE
        LET csp  == value(self.csp, nonce_string)
            st3  == Log(st2, i, "render")
            name == IF self.report_only THEN CONTENT_SECURITY_POLICY_REPORT_ONLY
                    ELSE CONTENT_SECURITY_POLICY
            future == [ kind |-> "middleware_add_raw_header", layer |-> i,
                        header_name |-> name, header_value |-> csp.text ]
        IN  IF ~csp.ok THEN Panic(st3)
            ELSE [st3 EXCEPT !.frames = Append(@, future)]

\* self.inner.call(request) as seen from layer i - 1
ServiceCall(i, st, draws) ==
    IF i > Len(stack) THEN Handler_call(i, st)
    ELSE IF stack[i].kind = "SombreroService" THEN SombreroService_call(i, st, draws)
    ELSE CspService_call(i, st, draws)

----------------------------------------------------------------------------
(* Spec / SpecNested: requests through the stack *)

\* the handler's response: two headers absent, x-frame-options set twice,
\* every other header (managed or not) set once
HandlerHeaders ==
    [n \in HeaderNames |->
        CASE n \in {"cross-origin-embedder-policy", "x-download-options"} -> <<>>
          [] n = "x-frame-options" -> <<"DENY", "ALLOWALL">>
          [] OTHER -> <<"handler">>]

\* the handler's future resolves to a response or to an error
HandlerResults == {Ok(HandlerHeaders), Err("handler failed")}

\* the request reaches the outermost service, which calls inward
Call(r) ==
    /\ req[r].pc = "idle"
    /\ \E draws \in [1..Len(stack) -> random_string(NonceLength)] :
          req' = [req EXCEPT ![r] = ServiceCall(1, req[r], draws)]
    /\ UNCHANGED <<policy, base, ops, rendered, stack>>

\* the handler's future is polled: the handler reads the CspNonce extension,
\* runs the CspNonce extractor on the request parts, and resolves
HandlerRun(r) ==
    /\ req[r].pc = "called"
    /\ \E res \in HandlerResults :
          req' = [req EXCEPT ![r] =
                    [Log(req[r], Len(stack) + 1, "handler") EXCEPT
                        !.pc = "responded",
                        !.handler_saw = req[r].extensions,
                        !.extracted = Some(from_request_parts(req[r].extensions)),
                        !.handler_result = Some(res),
                        !.result = Some(res)]]
    /\ UNCHANGED <<policy, base, ops, rendered, stack>>

\* the request record after its innermost pending future resolved to `out`
Resumed(st, out) ==
    LET f  == Head(st.frames)
        st1 == IF st.result.v.ok THEN Log(st, f.layer, "attach") ELSE st
    IN  [st1 EXCEPT !.result = Some(out),
                    !.frames = Tail(@),
                    !.pc = IF Tail(st.frames) = <<>> THEN "done" ELSE "responded"]

\* the future of SombreroService::call resumes with the outcome below it
SombreroMiddleware(r) ==
    /\ req[r].pc = "responded"
    /\ req[r].frames # <<>>
    /\ Head(req[r].frames).kind = "sombrero_svc_middleware"
    /\ LET f == Head(req[r].frames)
       IN  req' = [req EXCEPT ![r] =
                     Resumed(req[r],
                             sombrero_svc_middleware(f.h, f.content_security_policy,
                                 f.content_security_policy_report_only,
                                 req[r].result.v))]
    /\ UNCHANGED <<policy, base, ops, rendered, stack>>

\* the future of CspService::call resumes with the outcome below it
CspMiddleware(r) ==
    /\ req[r].pc = "responded"
    /\ req[r].frames # <<>>
    /\ Head(req[r].frames).kind = "middleware_add_raw_header"
    /\ LET f == Head(req[r].frames)
       IN  req' = [req EXCEPT ![r] =
                     Resumed(req[r],
                             middleware_add_raw_header(f.header_name, f.header_value,
                                                       req[r].result.v))]
    /\ UNCHANGED <<policy, base, ops, rendered, stack>>

Next ==
    \/ \E r \in Requests : Call(r)
    \/ \E r \in Requests : HandlerRun(r)
    \/ \E r \in Requests : SombreroMiddleware(r)
    \/ \E r \in Requests : CspMiddleware(r)

\* the policies and configurations the runs use
NoncePolicy == csp_builder_add(ContentSecurityPolicy_new, "script_src", <<Nonce>>)

BadPolicy == csp_builder_add(ContentSecurityPolicy_new, "default_src", <<Host("bad\nhost")>>)

\* every header kind configured, both policies using the nonce
FullSombrero ==
    builder_add(builder_add(builder_add(builder_add(builder_add(Sombrero_default,
        "content_security_policy", NoncePolicy),
        "content_security_policy_report_only", NoncePolicy),
        "cross_origin_embedder_policy", CrossOriginEmbedderPolicy("RequireCorp")),
        "x_dns_prefetch_control", XDnsPrefetchControl("Off")),
        "strict_transport_security", StrictTransportSecurity(FALSE, 3600))

SingleStacks ==
    { <<SombreroService(Sombrero_default)>>,
      <<SombreroService(FullSombrero)>>,
      <<SombreroService(Sombrero_new)>>,
      <<SombreroService(builder_add(Sombrero_new, "content_security_policy",
                                    ContentSecurityPolicy_new))>>,
      <<SombreroService(builder_add(Sombrero_new, "content_security_policy_report_only",
                                    BadPolicy))>>,
      <<CspService(CspLayer_new(NoncePolicy))>>,
      <<CspService(CspLayer_new_report_only(BadPolicy))>> }

NestedStacks ==
    { <<SombreroService(FullSombrero), CspService(CspLayer_new(NoncePolicy))>>,
      <<CspService(CspLayer_new(NoncePolicy)), SombreroService(FullSombrero)>>,
      <<SombreroService(FullSombrero), SombreroService(FullSombrero)>>,
      <<SombreroService(Sombrero_default),
        CspService(CspLayer_new_report_only(NoncePolicy))>>,
      <<CspService(CspLayer_new(BadPolicy)), SombreroService(Sombrero_default)>> }

PolicyUnused ==
    /\ base = ContentSecurityPolicy_new
    /\ policy = base
    /\ ops = <<>>
    /\ rendered = [nonce |-> "", result |-> [ok |-> FALSE], done |-> FALSE]

Init ==
    /\ PolicyUnused
    /\ stack \in SingleStacks
    /\ req = [r \in Requests |-> IdleRequest]

\* one request through two layers
InitNested ==
    /\ PolicyUnused
    /\ stack \in NestedStacks
    /\ req = [r \in Requests |-> IF r = 1 THEN IdleRequest ELSE UnusedRequest]

Spec == Init /\ [][Next]_vars

SpecNested == InitNested /\ [][Next]_vars

\* routes with the CspNonce extractor behind one nonce layer or behind none
ExtractStacks ==
    { <<>>,
      <<SombreroService(Sombrero_default)>>,
      <<SombreroService(Sombrero_new)>>,
      <<CspService(CspLayer_new(NoncePolicy))>> }

InitExtract ==
    /\ PolicyUnused
    /\ stack \in ExtractStacks
    /\ req = [r \in Requests |-> IdleRequest]

SpecExtract == InitExtract /\ [][Next]_vars

\* max_age values given to StrictTransportSecurity::max_age
StsAges == {0, 7, 10, 3600, 86400, 15551999, 15552000, 31536000, 63072000}

\* StrictTransportSecurity::DEFAULT.max_age(a).include_sub_domains(b)
StsConfigs ==
    { StrictTransportSecurity_include_sub_domains(
          StrictTransportSecurity_max_age(StrictTransportSecurity_DEFAULT, a), b) :
      a \in StsAges, b \in BOOLEAN }

\* one request through Sombrero::new().strict_transport_security(config)
InitSts ==
    /\ PolicyUnused
    /\ stack \in { <<SombreroService(builder_add(Sombrero_new,
                                   "strict_transport_security", c))>> : c \in StsConfigs }
    /\ req = [r \in Requests |-> IF r = 1 THEN IdleRequest ELSE UnusedRequest]

NextSts ==
    \/ \E r \in Requests : Call(r)
    \/ \E r \in Requests : HandlerRun(r)
    \/ \E r \in Requests : SombreroMiddleware(r)

SpecSts == InitSts /\ [][NextSts]_vars

----------------------------------------------------------------------------
(* SpecPolicy: a policy is built from a constructor by builder calls and     *)
(* rendered with value(nonce)                                               *)

NoRender == [nonce |-> "", result |-> [ok |-> FALSE], done |-> FALSE]

\* inputs of the builder calls
BuilderFields == {"default_src", "script_src", "frame_ancestors"}

SourceLists ==
    { <<Nonce, Host("example.com")>>,
      <<Host("bad\nhost")>> }

\* value() takes any &str as the nonce
RenderNonces == {"NONCE", "B7"}

Constructors == {ContentSecurityPolicy_new, strict_default}

\* the quiescent state of the middleware variables
NoStack == <<>>
NoRequests == [r \in Requests |-> UnusedRequest]

InitPolicy ==
    /\ base \in Constructors
    /\ policy = base
    /\ ops = <<>>
    /\ rendered = NoRender
    /\ stack = NoStack
    /\ req = NoRequests

BuilderAdd(id, new) ==
    /\ Len(ops) < MaxOps
    /\ policy' = csp_builder_add(policy, id, new)
    /\ ops' = Append(ops, [op |-> "add", id |-> id, new |-> new])
    /\ rendered' = NoRender
    /\ UNCHANGED <<base, stack, req>>

BuilderRemove(id) ==
    /\ Len(ops) < MaxOps
    /\ policy' = csp_builder_remove(policy, id)
    /\ ops' = Append(ops, [op |-> "remove", id |-> id])
    /\ rendered' = NoRender
    /\ UNCHANGED <<base, stack, req>>

BuilderUpgrade(doit) ==
    /\ Len(ops) < MaxOps
    /\ policy' = upgrade_insecure_requests(policy, doit)
    /\ ops' = Append(ops, [op |-> "upgrade", id |-> "upgrade_insecure_requests",
                           doit |-> doit])
    /\ rendered' = NoRender
    /\ UNCHANGED <<base, stack, req>>

Render(nonce) ==
    /\ rendered = NoRender
    /\ rendered' = [nonce |-> nonce, result |-> value(policy, nonce), done |-> TRUE]
    /\ UNCHANGED <<policy, base, ops, stack, req>>

NextPolicy ==
    \/ \E id \in BuilderFields, new \in SourceLists : BuilderAdd(id, new)
    \/ \E id \in BuilderFields : BuilderRemove(id)
    \/ \E doit \in BOOLEAN : BuilderUpgrade(doit)
    \/ \E nonce \in RenderNonces : Render(nonce)

SpecPolicy == InitPolicy /\ [][NextPolicy]_vars

\* the twenty csp_builder_add!($id) and the twenty csp_builder_remove!($id, ..)
\* functions of impl ContentSecurityPolicy
DirectiveNames == {DirectiveFields[k] : k \in 1..Len(DirectiveFields)}

DirectiveSet(id, new) ==
    /\ Len(ops) < MaxBuilderCalls
    /\ policy' = csp_builder_add(policy, id, new)
    /\ ops' = Append(ops, [op |-> "add", id |-> id, new |-> new])
    /\ UNCHANGED <<base, rendered, stack, req>>

DirectiveRemove(id) ==
    /\ Len(ops) < MaxBuilderCalls
    /\ policy' = csp_builder_remove(policy, id)
    /\ ops' = Append(ops, [op |-> "remove", id |-> id])
    /\ UNCHANGED <<base, rendered, stack, req>>

NextBuilders ==
    \/ \E id \in DirectiveNames, new \in SourceLists : DirectiveSet(id, new)
    \/ \E id \in DirectiveNames : DirectiveRemove(id)

SpecBuilders == InitPolicy /\ [][NextBuilders]_vars

----------------------------------------------------------------------------
(* Properties of the rendered policy (SpecPolicy) *)

\* the directive names in the canonical order, index-aligned with DirectiveFields
CanonicalNames ==
    << "default-src", "child-src", "connect-src", "font-src", "frame-src",
       "img-src", "manifest-src", "media-src", "object-src", "script-src",
       "script-src-elem", "script-src-attr", "style-src", "style-src-elem",
       "style-src-attr", "worker-src", "base-uri", "sandbox", "form-action",
       "frame-ancestors" >>

UpgradeClause == "upgrade-insecure-requests;"

RenderedOk == rendered.done /\ rendered.result.ok

\* positions where a clause begins: the start of the text or right after a ';'
ClauseBegins(text) ==
    {i \in 1..Len(text) : i = 1 \/ At(text, i - 1, ";")}

\* positions where a clause for directive `name` begins
ClauseStarts(text, name) ==
    {i \in ClauseBegins(text) : At(text, i, name \o " ")}

\* canonical indices of the directive names whose clause begins at position i
NamesAt(text, i) ==
    {k \in 1..Len(CanonicalNames) : At(text, i, CanonicalNames[k] \o " ")}

RECURSIVE SourcesText(_, _)
SourcesText(sources, nonce) ==
    IF sources = <<>> THEN ""
    ELSE " " \o as_cow(Head(sources), nonce) \o SourcesText(Tail(sources), nonce)

\* the clause the claims describe for a non-empty source list
ClauseText(name, sources, nonce) == name \o SourcesText(sources, nonce) \o ";"

RECURSIVE ClausesLength(_, _, _)
ClausesLength(k, p, nonce) ==
    IF k = 0 THEN 0
    ELSE ClausesLength(k - 1, p, nonce)
         + ( IF p[DirectiveFields[k]] = <<>> THEN 0
             ELSE Len(ClauseText(CanonicalNames[k], p[DirectiveFields[k]], nonce)) )

\* C1: value(nonce) ends with exactly one `upgrade-insecure-requests;` clause,
\* placed after the directive clauses, when upgrade_insecure_requests is true,
\* and never contains that clause when the flag is false.
C1_UpgradeClauseEmitted ==
    RenderedOk =>
        IF policy.upgrade_insecure_requests
        THEN /\ EndsWith(rendered.result.text, UpgradeClause)
             /\ Occurrences(rendered.result.text, UpgradeClause) = 1
        ELSE ~Contains(rendered.result.text, UpgradeClause)

\* C2: the value rendered from strict_default() contains `default-src 'self';`
\* and `base-uri 'self';` and ends with `upgrade-insecure-requests;`.
C2_StrictDefaultValue ==
    (rendered.done /\ policy = strict_default) =>
        /\ rendered.result.ok
        /\ Contains(rendered.result.text, "default-src 'self';")
        /\ Contains(rendered.result.text, "base-uri 'self';")
        /\ EndsWith(rendered.result.text, UpgradeClause)

ApplyOp(p, o) ==
    CASE o.op = "add"     -> csp_builder_add(p, o.id, o.new)
      [] o.op = "remove"  -> csp_builder_remove(p, o.id)
      [] o.op = "upgrade" -> upgrade_insecure_requests(p, o.doit)

RECURSIVE ApplyAll(_, _)
ApplyAll(p, os) ==
    IF os = <<>> THEN p ELSE ApplyAll(ApplyOp(p, Head(os)), Tail(os))

Orderings(n) ==
    {f \in [1..n -> 1..n] : \A i, j \in 1..n : f[i] = f[j] => i = j}

DistinctTargets == \A i, j \in 1..Len(ops) : ops[i].id = ops[j].id => i = j

\* C9: clauses appear in the canonical directive order, and applying the same
\* builder calls on distinct directives in any other order renders the same value.
C9_CanonicalOrder ==
    rendered.done =>
        /\ rendered.result.ok =>
              \A a, b \in ClauseBegins(rendered.result.text) :
                a < b =>
                  \A i \in NamesAt(rendered.result.text, a) :
                    \A j \in NamesAt(rendered.result.text, b) : i < j
        /\ DistinctTargets =>
              \A f \in Orderings(Len(ops)) :
                value(ApplyAll(base, [i \in 1..Len(ops) |-> ops[f[i]]]), rendered.nonce)
                    = rendered.result

\* two builder calls made against the canonical order, both visible in the output
C9_Witness ==
    /\ RenderedOk
    /\ DistinctTargets
    /\ Len(ops) >= 2
    /\ ops[1].op = "add" /\ ops[1].id = "frame_ancestors"
    /\ ops[2].op = "add" /\ ops[2].id = "default_src"
    /\ ClauseStarts(rendered.result.text, "default-src") # {}
    /\ ClauseStarts(rendered.result.text, "frame-ancestors") # {}

\* C10: a directive has a clause in the rendered value iff its source list is
\* non-empty; the clause is the name, each source in list order preceded by one
\* space, then `;`; nothing else is rendered and no empty `name;` clause appears.
C10_ClauseIffNonEmpty ==
    RenderedOk =>
        /\ \A k \in 1..Len(DirectiveFields) :
             LET sources == policy[DirectiveFields[k]]
                 name    == CanonicalNames[k]
                 text    == rendered.result.text
                 clause  == ClauseText(name, sources, rendered.nonce)
             IN  /\ ~Contains(text, name \o ";")
                 /\ IF sources = <<>>
                    THEN ClauseStarts(text, name) = {}
                    ELSE /\ Cardinality(ClauseStarts(text, name)) = 1
                         /\ \A i \in ClauseStarts(text, name) : At(text, i, clause)
        /\ Len(rendered.result.text) = ClausesLength(Len(DirectiveFields), policy, rendered.nonce)

\* a rendered policy with both an empty and a multi-source directive
C10_Witness ==
    /\ RenderedOk
    /\ policy.child_src = <<>>
    /\ policy.script_src = <<>>
    /\ Len(policy.default_src) = 2
    /\ Contains(rendered.result.text, "default-src 'nonce-NONCE' example.com;")

----------------------------------------------------------------------------
(* Properties of the middleware (Spec, SpecNested) *)

NoncePrefix == "'nonce-"

\* positions of the `'nonce-` prefixes that a later quote closes
NonceStarts(text) ==
    {i \in 1..Len(text) :
        /\ At(text, i, NoncePrefix)
        /\ \E j \in (i + Len(NoncePrefix))..Len(text) : At(text, j, "'")}

\* position of the quote closing the token that starts at i
NonceEnd(text, i) ==
    CHOOSE j \in (i + Len(NoncePrefix))..Len(text) :
        /\ At(text, j, "'")
        /\ \A k \in (i + Len(NoncePrefix))..(j - 1) : ~At(text, k, "'")

\* the nonce values of the `'nonce-X'` tokens of a header value
NoncesIn(text) ==
    {SubSeq(text, i + Len(NoncePrefix), NonceEnd(text, i) - 1) : i \in NonceStarts(text)}

PolicyUsesNonce(p) ==
    \E k \in 1..Len(DirectiveFields) :
        \E i \in 1..Len(p[DirectiveFields[k]]) : p[DirectiveFields[k]][i] = Nonce

\* the request got a response back from the whole stack
Responded(r) == req[r].pc = "done" /\ req[r].result.v.ok

FinalHeaders(r) == req[r].result.v.headers

Outer == stack[1]

OuterIsSombrero == Outer.kind = "SombreroService"

BothPolicies ==
    /\ OuterIsSombrero
    /\ Outer.sombrero.content_security_policy.some
    /\ Outer.sombrero.content_security_policy_report_only.some

\* C3: with an enforcing and a report-only policy configured, one nonce is drawn
\* for the request and the two CSP headers of its response embed that same nonce.
C3_OneNoncePerRequest ==
    \A r \in Requests :
        (Responded(r) /\ BothPolicies) =>
            LET csp == FinalHeaders(r)[CONTENT_SECURITY_POLICY]
                ro  == FinalHeaders(r)[CONTENT_SECURITY_POLICY_REPORT_ONLY]
            IN  /\ Len(req[r].nonces) = 1
                /\ Len(csp) = 1 /\ Len(ro) = 1
                /\ NoncesIn(csp[1]) = NoncesIn(ro[1])
                /\ PolicyUsesNonce(Outer.sombrero.content_security_policy.v)
                      => NoncesIn(csp[1]) = {req[r].nonces[1]}
                /\ PolicyUsesNonce(Outer.sombrero.content_security_policy_report_only.v)
                      => NoncesIn(ro[1]) = {req[r].nonces[1]}

\* a response carrying both headers, each with a nonce token
C3_Witness ==
    \E r \in Requests :
        /\ Responded(r) /\ BothPolicies
        /\ NoncesIn(FinalHeaders(r)[CONTENT_SECURITY_POLICY][1]) # {}
        /\ NoncesIn(FinalHeaders(r)[CONTENT_SECURITY_POLICY_REPORT_ONLY][1]) # {}

\* C5: the nonce SombreroService stored in the request extensions before the
\* handler ran is the nonce of the `'nonce-X'` token of the response's CSP header.
C5_StoredNonceIsHeaderNonce ==
    \A r \in Requests :
        (Responded(r) /\ Len(stack) = 1 /\ OuterIsSombrero
            /\ Outer.sombrero.content_security_policy.some) =>
            LET csp == FinalHeaders(r)[CONTENT_SECURITY_POLICY]
            IN  /\ req[r].handler_saw.some
                /\ Len(csp) = 1
                /\ NoncesIn(csp[1]) \subseteq {req[r].handler_saw.v}
                /\ PolicyUsesNonce(Outer.sombrero.content_security_policy.v)
                      => NoncesIn(csp[1]) = {req[r].handler_saw.v}

C5_Witness ==
    \E r \in Requests :
        /\ Responded(r) /\ Len(stack) = 1 /\ OuterIsSombrero
        /\ Outer.sombrero.content_security_policy.some
        /\ req[r].handler_saw.some
        /\ Len(FinalHeaders(r)[CONTENT_SECURITY_POLICY]) = 1
        /\ NoncesIn(FinalHeaders(r)[CONTENT_SECURITY_POLICY][1]) = {req[r].handler_saw.v}

\* C6: through two nonce-generating layers exactly one nonce exists for the
\* request: the nonce the handler reads is the nonce of the final CSP headers.
C6_NestedLayersOneNonce ==
    \A r \in Requests :
        (Responded(r) /\ Len(stack) = 2) =>
            /\ \A i, j \in 1..Len(req[r].nonces) : req[r].nonces[i] = req[r].nonces[j]
            /\ \A n \in {CONTENT_SECURITY_POLICY, CONTENT_SECURITY_POLICY_REPORT_ONLY} :
                 \A i \in 1..Len(FinalHeaders(r)[n]) :
                    NoncesIn(FinalHeaders(r)[n][i]) \subseteq {req[r].handler_saw.v}

\* the value the outermost layer is configured to give header `name`, if any
Configured(r, name) ==
    IF OuterIsSombrero THEN
        IF name = CONTENT_SECURITY_POLICY THEN
            IF Outer.sombrero.content_security_policy.some
            THEN Some(value(Outer.sombrero.content_security_policy.v, req[r].nonces[1]).text)
            ELSE OptNone
        ELSE IF name = CONTENT_SECURITY_POLICY_REPORT_ONLY THEN
            IF Outer.sombrero.content_security_policy_report_only.some
            THEN Some(value(Outer.sombrero.content_security_policy_report_only.v,
                            req[r].nonces[1]).text)
            ELSE OptNone
        ELSE IF \E k \in 1..Len(StaticFields) :
                    /\ Outer.sombrero[StaticFields[k]].some
                    /\ Header_name(Outer.sombrero[StaticFields[k]].v) = name
        THEN LET k == CHOOSE k \in 1..Len(StaticFields) :
                        /\ Outer.sombrero[StaticFields[k]].some
                        /\ Header_name(Outer.sombrero[StaticFields[k]].v) = name
             IN  Some(Header_value(Outer.sombrero[StaticFields[k]].v))
        ELSE OptNone
    ELSE IF name = (IF Outer.report_only THEN CONTENT_SECURITY_POLICY_REPORT_ONLY
                    ELSE CONTENT_SECURITY_POLICY)
    THEN Some(value(Outer.csp, req[r].nonces[1]).text)
    ELSE OptNone

\* C7: a header the middleware is configured to set appears exactly once on the
\* final response, with the configured value, whatever the handler had set.
C7_InsertReplaces ==
    \A r \in Requests : Responded(r) =>
        \A n \in ManagedNames :
            Configured(r, n).some => FinalHeaders(r)[n] = <<Configured(r, n).v>>

\* every header is configured and the handler had set both CSP headers and
\* others to values of its own, x-frame-options twice
C7_Witness ==
    \E r \in Requests :
        /\ Responded(r)
        /\ OuterIsSombrero
        /\ \A n \in ManagedNames : Configured(r, n).some
        /\ req[r].handler_result.v.headers[CONTENT_SECURITY_POLICY] = <<"handler">>
        /\ req[r].handler_result.v.headers[CONTENT_SECURITY_POLICY_REPORT_ONLY] = <<"handler">>
        /\ req[r].handler_result.v.headers["strict-transport-security"] = <<"handler">>
        /\ Len(req[r].handler_result.v.headers["x-frame-options"]) = 2

\* C8: a handler error comes back unchanged through SombreroService and
\* CspService and no header attachment happens for that request.
C8_ErrorUnchanged ==
    \A r \in Requests :
        (req[r].pc \in {"responded", "done"} /\ ~req[r].handler_result.v.ok) =>
            /\ req[r].result = req[r].handler_result
            /\ \A i \in 1..Len(req[r].trace) : req[r].trace[i].event # "attach"

\* a handler error has come back out of SombreroService
C8_Witness ==
    /\ \E r \in Requests :
          /\ req[r].pc = "done"
          /\ ~req[r].handler_result.v.ok
          /\ req[r].result.v = Err("handler failed")
    /\ OuterIsSombrero

\* every source list of the policy is empty and upgrade_insecure_requests is off
EmptyPolicy(p) ==
    /\ \A k \in 1..Len(DirectiveFields) : p[DirectiveFields[k]] = <<>>
    /\ ~p.upgrade_insecure_requests

\* C11: a policy with all twenty lists empty and upgrade_insecure_requests false
\* renders to the empty header value and SombreroService then treats it as no
\* header: the Content-Security-Policy values of the response are the handler's.
C11_EmptyPolicyNoHeader ==
    \A r \in Requests :
        (Responded(r) /\ Len(stack) = 1 /\ OuterIsSombrero
            /\ Outer.sombrero.content_security_policy.some
            /\ EmptyPolicy(Outer.sombrero.content_security_policy.v)) =>
            /\ value(Outer.sombrero.content_security_policy.v, req[r].nonces[1])
                  = [ok |-> TRUE, text |-> ""]
            /\ FinalHeaders(r)[CONTENT_SECURITY_POLICY]
                  = req[r].handler_result.v.headers[CONTENT_SECURITY_POLICY]

\* the one layer of the stack is SombreroService built from Sombrero::default()
DefaultService == stack = <<SombreroService(Sombrero_default)>>

\* C12: every response that passes through SombreroService built from
\* Sombrero::default() carries x-frame-options: SAMEORIGIN,
\* x-content-type-options: nosniff and
\* strict-transport-security: max-age=15552000;includeSubDomains, whatever the
\* handler had put in its response.
C12_DefaultHeaders ==
    \A r \in Requests :
        (Responded(r) /\ DefaultService) =>
            /\ FinalHeaders(r)["x-frame-options"] = <<"SAMEORIGIN">>
            /\ FinalHeaders(r)["x-content-type-options"] = <<"nosniff">>
            /\ FinalHeaders(r)["strict-transport-security"]
                  = <<"max-age=15552000;includeSubDomains">>

\* a response came back through the default configuration although the handler
\* had set other values for the three headers
C12_Witness ==
    \E r \in Requests :
        /\ Responded(r) /\ DefaultService
        /\ req[r].handler_result.v.headers["x-frame-options"] = <<"DENY", "ALLOWALL">>
        /\ req[r].handler_result.v.headers["x-content-type-options"] = <<"handler">>
        /\ req[r].handler_result.v.headers["strict-transport-security"] = <<"handler">>

\* C13: the CspNonce extractor returns NonceNotFoundError exactly when the
\* request extensions hold no CspNonce entry, and otherwise the stored nonce,
\* which is the nonce the layer drew: it never panics and never returns a
\* default or empty nonce.
C13_ExtractorResult ==
    \A r \in Requests :
        req[r].extracted.some =>
            LET res == req[r].extracted.v
            IN  /\ req[r].pc # "panicked"
                /\ ~res.ok <=> ~req[r].extensions.some
                /\ ~res.ok <=> req[r].nonces = <<>>
                /\ ~res.ok => res.err = NonceNotFoundError
                /\ res.ok => /\ res.v = req[r].extensions.v
                             /\ res.v = req[r].nonces[Len(req[r].nonces)]
                             /\ res.v \in random_string(NonceLength)

\* a handler behind no nonce layer ran the extractor and got the error
C13_Witness ==
    \E r \in Requests :
        /\ req[r].extracted.some
        /\ req[r].extensions = OptNone
        /\ req[r].extracted.v = [ok |-> FALSE, err |-> NonceNotFoundError]

\* the steps of one request through a single SombreroService, in order
SombreroOrder(sombrero) ==
    <<Ev(1, "nonce")>>
    \o (IF sombrero.content_security_policy.some THEN <<Ev(1, "render")>> ELSE <<>>)
    \o (IF sombrero.content_security_policy_report_only.some
        THEN <<Ev(1, "render_ro")>> ELSE <<>>)
    \o <<Ev(1, "store"), Ev(1, "forward"), Ev(2, "handler_call"), Ev(2, "handler"),
         Ev(1, "attach")>>

IsPrefix(s, t) == Len(s) <= Len(t) /\ s = SubSeq(t, 1, Len(s))

\* C14: for each request SombreroService takes its steps in one order: the nonce
\* is generated, each configured policy is rendered with it, the nonce is stored
\* in the extensions, the request is forwarded to the handler exactly once, and
\* the headers are attached only after the handler's response exists.
C14_SombreroStepOrder ==
    \A r \in Requests :
        (Len(stack) = 1 /\ OuterIsSombrero) =>
            /\ IsPrefix(req[r].trace, SombreroOrder(Outer.sombrero))
            /\ Responded(r) => req[r].trace = SombreroOrder(Outer.sombrero)
            /\ \A k \in 1..Len(req[r].frames) :
                  LET f == req[r].frames[k]
                  IN  /\ f.content_security_policy
                            = Expected(SombreroService_csp(Outer.sombrero, req[r].nonces[1]))
                      /\ f.content_security_policy_report_only
                            = Expected(SombreroService_csp_ro(Outer.sombrero, req[r].nonces[1]))
                      /\ req[r].extensions = Some(req[r].nonces[1])

\* a request went through all eight steps with both policies configured
C14_Witness ==
    \E r \in Requests :
        /\ Len(stack) = 1 /\ OuterIsSombrero /\ BothPolicies
        /\ Responded(r)
        /\ Len(req[r].trace) = 8

\* layer i is a CspService whose policy does not render to a legal header value
\* with the nonce it drew for request r
CspRenderFails(r, i) ==
    /\ stack[i].kind = "CspService"
    /\ Len(req[r].nonces) >= i
    /\ ~value(stack[i].csp, req[r].nonces[i]).ok

\* C15: in CspService::call a policy that does not render to a legal header
\* value aborts the call before the request is forwarded: the handler's call is
\* never invoked for such a request and no response is returned for it.
C15_CspRenderFailsBeforeForward ==
    \A r \in Requests : \A i \in 1..Len(stack) :
        CspRenderFails(r, i) =>
            /\ \A k \in 1..Len(req[r].trace) :
                  /\ req[r].trace[k] # Ev(i, "forward")
                  /\ req[r].trace[k].event # "handler_call"
            /\ ~Responded(r)

\* the nonce of request r's own extension state is the only one its
\* Content-Security-Policy header embeds
OwnNonceOnly(r) ==
    LET csp == FinalHeaders(r)[CONTENT_SECURITY_POLICY]
    IN  /\ Len(csp) = 1
        /\ req[r].extensions.some
        /\ NoncesIn(csp[1]) \subseteq {req[r].extensions.v}
        /\ PolicyUsesNonce(Outer.sombrero.content_security_policy.v)
              => req[r].extensions.v \in NoncesIn(csp[1])
        /\ \A q \in Requests :
              (req[q].extensions.some /\ req[q].extensions.v # req[r].extensions.v)
                  => req[q].extensions.v \notin NoncesIn(csp[1])

\* C16: with concurrent requests through one SombreroService, in any
\* interleaving, each response's Content-Security-Policy header embeds the nonce
\* stored in its own request's extensions and never another request's, and no
\* step of any request changes the shared configuration.
C16_ConcurrentOwnNonce ==
    /\ [](\A r \in Requests :
            (Responded(r) /\ Len(stack) = 1 /\ OuterIsSombrero
                /\ Outer.sombrero.content_security_policy.some) => OwnNonceOnly(r))
    /\ [][stack' = stack]_vars

\* a response with its nonce in the header came back while another request,
\* holding a different nonce, was still with the handler
C16_Witness ==
    \E r, q \in Requests :
        /\ Len(stack) = 1 /\ OuterIsSombrero
        /\ Outer.sombrero.content_security_policy.some
        /\ Responded(r)
        /\ NoncesIn(FinalHeaders(r)[CONTENT_SECURITY_POLICY][1]) = {req[r].extensions.v}
        /\ req[q].pc = "called"
        /\ req[q].extensions.some
        /\ req[q].extensions.v # req[r].extensions.v

\* C17: for each of the twenty directive names, the set builder replaces that
\* list by the given one and the remove builder makes it empty, and the other
\* nineteen lists and upgrade_insecure_requests of the returned policy equal
\* those of the policy it was called on.
C17_BuilderFrame ==
    [][ Len(ops') = Len(ops) + 1 =>
            LET o == ops'[Len(ops')]
            IN  /\ o.op = "add" => policy'[o.id] = o.new
                /\ o.op = "remove" => policy'[o.id] = <<>>
                /\ \A f \in DirectiveNames \ {o.id} : policy'[f] = policy[f]
                /\ policy'.upgrade_insecure_requests = policy.upgrade_insecure_requests
                /\ DOMAIN policy' = DOMAIN policy ]_vars

\* a non-empty list was replaced by a set builder, and then another non-empty
\* list was emptied by a remove builder, upgrade_insecure_requests being on
C17_Witness ==
    /\ base = strict_default
    /\ Len(ops) = 2
    /\ ops[1] = [op |-> "add", id |-> "font_src", new |-> <<Nonce, Host("example.com")>>]
    /\ ops[2] = [op |-> "remove", id |-> "style_src"]
    /\ policy.font_src = <<Nonce, Host("example.com")>>
    /\ policy.style_src = <<>>
    /\ policy.img_src = strict_default.img_src
    /\ policy.upgrade_insecure_requests

\* the text CspSource::Nonce renders to
NonceToken(nonce) == NoncePrefix \o nonce \o "'"

\* text with every occurrence of token blanked to `'nonce-'`
RECURSIVE MaskToken(_, _)
MaskToken(text, token) ==
    LET at == {i \in 1..Len(text) : At(text, i, token)}
    IN  IF at = {} THEN text
        ELSE LET i == CHOOSE i \in at : \A j \in at : i <= j
             IN  SubSeq(text, 1, i - 1) \o NoncePrefix \o "'"
                 \o MaskToken(SubSeq(text, i + Len(token), Len(text)), token)

\* C18: only CspSource::Nonce depends on the nonce: a policy without it renders
\* to the same value under any two nonces, and a policy with it renders to
\* values that differ only inside their `'nonce-<value>'` tokens.
C18_OnlyNonceTokensDiffer ==
    rendered.done =>
        \A n2 \in RenderNonces :
            LET a == rendered.result
                b == value(policy, n2)
            IN  /\ a.ok = b.ok
                /\ ~PolicyUsesNonce(policy) => a = b
                /\ a.ok => MaskToken(a.text, NonceToken(rendered.nonce))
                              = MaskToken(b.text, NonceToken(n2))

\* a policy with Nonce in two directives was rendered; under another nonce its
\* value is a different text
C18_Witness ==
    /\ rendered.done /\ rendered.result.ok
    /\ policy.default_src = <<Nonce, Host("example.com")>>
    /\ policy.script_src = <<Nonce, Host("example.com")>>
    /\ \E n2 \in RenderNonces :
          /\ value(policy, n2).ok
          /\ value(policy, n2).text # rendered.result.text
          /\ Len(value(policy, n2).text) # Len(rendered.result.text)

\* the StrictTransportSecurity the outermost SombreroService is configured with
StsConfig == Outer.sombrero.strict_transport_security.v

\* C19: for every StrictTransportSecurity configuration the optimized
\* Header::value() equals raw_value(), which is `max-age=<max_age>` followed by
\* `;includeSubDomains` exactly when include_sub_domains is true; the cached
\* value for DEFAULT equals the one computed from max_age = 180*24*60*60.
C19_StsValueIsRawValue ==
    \A r \in Requests :
        (Responded(r) /\ OuterIsSombrero /\ Outer.sombrero.strict_transport_security.some) =>
            LET text == FinalHeaders(r)["strict-transport-security"]
            IN  /\ text = <<Header_value(StsConfig)>>
                /\ text = <<raw_value(StsConfig)>>
                /\ At(text[1], 1, "max-age=" \o ToDecimal(StsConfig.max_age))
                /\ EndsWith(text[1], ";includeSubDomains") <=> StsConfig.include_sub_domains
                /\ Len(text[1]) = Len("max-age=") + Len(ToDecimal(StsConfig.max_age))
                      + (IF StsConfig.include_sub_domains THEN Len(";includeSubDomains") ELSE 0)
                /\ StsConfig = StrictTransportSecurity_DEFAULT
                      => /\ text = <<"max-age=15552000;includeSubDomains">>
                         /\ StsConfig.max_age = 180 * 24 * 60 * 60
                /\ (StsConfig.max_age = 3600 /\ ~StsConfig.include_sub_domains)
                      => text = <<"max-age=3600">>

\* a response carries the header of the DEFAULT configuration, the one value()
\* answers from the cached constant
C19_Witness ==
    \E r \in Requests :
        /\ Responded(r) /\ OuterIsSombrero
        /\ Outer.sombrero.strict_transport_security = Some(StrictTransportSecurity_DEFAULT)
        /\ req[r].handler_result.v.headers["strict-transport-security"] = <<"handler">>
        /\ FinalHeaders(r)["strict-transport-security"] = <<DEFAULT_HEADERIZED>>

\* C20: attaching changes only the configured headers: for every header kind
\* left None and every header name the middleware does not manage, the final
\* response has exactly the handler's values, and with Sombrero::new() the
\* handler's headers come back unchanged.
C20_OnlyConfiguredHeadersChange ==
    \A r \in Requests :
        (Responded(r) /\ Len(stack) = 1) =>
            /\ \A n \in HeaderNames :
                  ~Configured(r, n).some =>
                      FinalHeaders(r)[n] = req[r].handler_result.v.headers[n]
            /\ Outer = SombreroService(Sombrero_new)
                  => FinalHeaders(r) = req[r].handler_result.v.headers

\* a response through the default configuration: x-frame-options was replaced
\* while the unconfigured and unmanaged headers the handler set are still its own
C20_Witness ==
    \E r \in Requests :
        /\ Responded(r) /\ DefaultService
        /\ FinalHeaders(r)["x-frame-options"] # req[r].handler_result.v.headers["x-frame-options"]
        /\ ~Configured(r, "x-dns-prefetch-control").some
        /\ ~Configured(r, CONTENT_SECURITY_POLICY_REPORT_ONLY).some
        /\ FinalHeaders(r)["x-dns-prefetch-control"] = <<"handler">>
        /\ FinalHeaders(r)[CONTENT_SECURITY_POLICY_REPORT_ONLY] = <<"handler">>
        /\ FinalHeaders(r)["cross-origin-embedder-policy"] = <<>>
        /\ FinalHeaders(r)["x-custom"] = <<"handler">>

====
